---- MODULE Spec2Model ----
(***************************************************************************)
(* A model of lookupstreamlit.py: the CU lookup tool.                      *)
(*                                                                         *)
(* The four CSV relations are read once (load_data), cleaned, and then     *)
(* only read: the Search handler filters the listings, the Show Details    *)
(* handler expands the selected CU through the breakdown relation          *)
(* (recursive_breakdown) and annotates every stock-code row with its       *)
(* description (get_sc_description).                                       *)
(*                                                                         *)
(* Identifiers and attribute texts are sequences of one-character strings, *)
(* so that stripping, prefix tests and substring search are computed on    *)
(* the characters.  A missing CSV cell (pandas NaN) is the value NaN.      *)
(* Descriptions, units and prices are opaque texts that are only copied.   *)
(***************************************************************************)
EXTENDS Integers, Sequences, FiniteSets, TLC

VARIABLES
    csv,              \* the four CSV files as pd.read_csv returns them
    loaded,           \* TRUE once load_data has produced the four relations
    listings,         \* the listings relation
    breakdowns,       \* the breakdown relation, after cleaning
    sc_desc,          \* the primary description catalog, after cleaning
    backup_desc,      \* the backup description catalog
    search_results,   \* st.session_state["search_results"]
    last_log,         \* the query of the last line written to cu_sc_tool.log
    pc,               \* where the running script is
    stack,            \* the active calls of recursive_breakdown, outermost first
    cu_id,            \* the CU the Show Details handler selected
    legend_df,        \* the handler's legend table
    breakdown_df,     \* what recursive_breakdown returned to the handler
    view,             \* the annotated breakdown table the handler shows
    error,            \* the exception that ended the handler, or NoError
    details,          \* the last value get_sc_description returned
    track,            \* whether completed expansions are recorded in history
    history           \* per expanded cu: the table its first expansion
                      \* returned, and whether it was expanded again since

vars == <<csv, loaded, listings, breakdowns, sc_desc, backup_desc,
          search_results, last_log, pc, stack, cu_id, legend_df,
          breakdown_df, view, error, details, track, history>>

relations == <<listings, breakdowns, sc_desc, backup_desc>>

(***************************************************************************)
(* Bounds of the model.                                                    *)
(***************************************************************************)
\* rows of the breakdown relation when the expansion engine is explored
MaxRows == 3
\* rows of the breakdown relation when whole lookups are explored
MaxLookupRows == 2
\* tokens a raw identifier is built from
MaxTokens == 3
\* entries of each description catalog
MaxCatalog == 2
\* records of the listings relation
MaxListings == 2
\* characters of a search query
MaxQueryLen == 2

(***************************************************************************)
(* Texts.                                                                  *)
(***************************************************************************)
NaN == <<"NaN">>
EmptyText == <<>>
\* no exception, and the exception the interpreter raises on a full call stack
NoError == [kind |-> "none", id |-> NaN]
RecursionError == [kind |-> "RecursionError", id |-> NaN]
NoDetails == [Description |-> "", UOI |-> "", Price |-> ""]
NoHistory == {}

IsNa(x) == x = NaN
NotNa(x) == x # NaN

\* str(x): a text is itself, a missing cell prints as "nan"
Str(x) == IF IsNa(x) THEN <<"n", "a", "n">> ELSE x

\* str.lower() on one character of the model's alphabet
LowerChar(c) ==
    CASE c = "S" -> "s"
      [] c = "C" -> "c"
      [] c = "A" -> "a"
      [] c = "B" -> "b"
      [] OTHER -> c

Lower(s) == [i \in 1..Len(s) |-> LowerChar(s[i])]

StartsWith(s, p) == Len(s) >= Len(p) /\ SubSeq(s, 1, Len(p)) = p

(***************************************************************************)
(* load_data: the cleaning of the CSV rows.                                *)
(***************************************************************************)
\* lstrip that removes one leading "0" only
LStripOnce(s) == IF Len(s) > 0 /\ Head(s) = "0" THEN Tail(s) ELSE s

RECURSIVE LStripAll(_)
LStripAll(s) == IF Len(s) > 0 /\ Head(s) = "0" THEN LStripAll(Tail(s)) ELSE s

\* str(x).lstrip("0")
LStripZeros(s) == LStripAll(s)

\* lambda x: str(x).lstrip("0") if pd.notnull(x) else x
StripCell(x) == IF NotNa(x) THEN LStripZeros(x) ELSE x

SC000 == <<"s", "c", "0", "0", "0">>

\* the prefix test without .lower(): only the lower-case prefix is removed
remove_sc000_prefix_cased(val) ==
    IF NotNa(val) /\ StartsWith(val, SC000)
    THEN SubSeq(val, 6, Len(val))
    ELSE val

\* remove_sc000_prefix: val[5:] when val.lower().startswith("sc000")
remove_sc000_prefix(val) ==
    IF NotNa(val) /\ StartsWith(Lower(val), SC000)
    THEN SubSeq(val, 6, Len(val))
    ELSE val

\* load_data's cleaning of one breakdowns row
CleanBreakdownRow(r) ==
    [CU |-> remove_sc000_prefix(r.CU),
     CHILD |-> remove_sc000_prefix(r.CHILD),
     SC |-> StripCell(r.SC),
     QTY |-> r.QTY]

\* load_data's cleaning of one scdesc row
CleanScDescRow(r) == [r EXCEPT !.id = StripCell(r.id)]

\* listings.loc[:, ~listings.columns.str.contains("Unnamed:")]
DropUnnamed(r) == [Description |-> r.Description, Description2 |-> r.Description2]

\* load_data: the four relations returned for the four files
load_data(files) ==
    [listings |-> [i \in 1..Len(files.listings) |-> DropUnnamed(files.listings[i])],
     breakdowns |-> [i \in 1..Len(files.breakdowns) |->
                        CleanBreakdownRow(files.breakdowns[i])],
     sc_desc |-> [i \in 1..Len(files.sc_desc) |-> CleanScDescRow(files.sc_desc[i])],
     backup_desc |-> files.backup_desc]

(***************************************************************************)
(* recursive_breakdown, one step of the interpreter at a time.  A frame of *)
(* the stack is one active call: its cu_str, the rows of its subset still  *)
(* to iterate (the row at the head is the one being handled while a deeper *)
(* call runs), and its result so far.                                      *)
(***************************************************************************)
\* the calls the interpreter lets recursive_breakdown nest before it raises
\* RecursionError; deeper than any chain an acyclic relation of MaxRows rows has
RecursionLimit == MaxRows + 1

\* cu_str in breakdowns["CU"].values
InBreakdowns(cu_str) == \E i \in 1..Len(breakdowns) : breakdowns[i].CU = cu_str

\* breakdowns[breakdowns["CU"] == cu_str]
Subset(cu_str) ==
    LET Keep(r) == r.CU = cu_str IN SelectSeq(breakdowns, Keep)

\* the branch a row takes when the second test is a plain else: every row
\* that is not broken down further joins the result
RowKindNoElif(row) ==
    IF IsNa(row.SC) /\ NotNa(row.CHILD) THEN "descend" ELSE "emit"

\* the branch a row of the subset takes in the for loop
RowKind(row) ==
    IF IsNa(row.SC) /\ NotNa(row.CHILD) THEN "descend"
    ELSE IF NotNa(row.SC) THEN "emit"
    ELSE "skip"

\* the concatenation with its operands swapped
ConcatSwapped(result, deeper) == deeper \o result

\* pd.concat([result, deeper], ignore_index=True)
Concat(result, deeper) == result \o deeper

NewFrame(cu_str) == [cu |-> cu_str, todo |-> Subset(cu_str), result |-> <<>>]

Top == stack[Len(stack)]

ReplaceTop(f) == [stack EXCEPT ![Len(stack)] = f]

\* the top frame moves on to its next row, with `rows` appended to its result
Advance(rows) ==
    ReplaceTop([Top EXCEPT !.todo = Tail(@), !.result = Concat(@, rows)])

(***************************************************************************)
(* get_sc_description and get_cu_legend_info.                              *)
(***************************************************************************)
\* the rows of a catalog whose id column, as text, equals sc_str
Matching(catalog, sc_str) ==
    LET Keep(r) == Str(r.id) = sc_str IN SelectSeq(catalog, Keep)

\* main_info.iloc[0].get(col, ""): the cell when the file has the column
GetOr(row, col) ==
    IF col \in csv.sc_desc_cols
    THEN (IF col = "UOI" THEN row.UOI ELSE row.Price)
    ELSE ""

\* the lookup with the two catalogs tried in the other order
get_sc_description_backup_first(sc_id) ==
    LET sc_str == Str(sc_id)
        main_info == Matching(sc_desc, sc_str)
        backup_info == Matching(backup_desc, sc_str)
    IN  IF backup_info # <<>>
        THEN [Description |-> backup_info[1].Description, UOI |-> "", Price |-> ""]
        ELSE IF main_info # <<>>
        THEN [Description |-> main_info[1].Description,
              UOI |-> GetOr(main_info[1], "UOI"),
              Price |-> GetOr(main_info[1], "Price")]
        ELSE [Description |-> "No Description Found", UOI |-> "", Price |-> ""]

\* the lookup without its fallback to the backup catalog
get_sc_description_no_backup(sc_id) ==
    LET sc_str == Str(sc_id)
        main_info == Matching(sc_desc, sc_str)
    IN  IF main_info # <<>>
        THEN [Description |-> main_info[1].Description,
              UOI |-> GetOr(main_info[1], "UOI"),
              Price |-> GetOr(main_info[1], "Price")]
        ELSE [Description |-> "No Description Found", UOI |-> "", Price |-> ""]

get_sc_description(sc_id) ==
    LET sc_str == Str(sc_id)
        main_info == Matching(sc_desc, sc_str)
        backup_info == Matching(backup_desc, sc_str)
    IN  IF main_info # <<>>
        THEN [Description |-> main_info[1].Description,
              UOI |-> GetOr(main_info[1], "UOI"),
              Price |-> GetOr(main_info[1], "Price")]
        ELSE IF backup_info # <<>>
        THEN [Description |-> backup_info[1].Description, UOI |-> "", Price |-> ""]
        ELSE [Description |-> "No Description Found", UOI |-> "", Price |-> ""]

\* listings[listings["Description 2"].astype(str) == str(cu)]
get_cu_legend_info(cu) ==
    LET Keep(r) == Str(r.Description2) = Str(cu) IN SelectSeq(listings, Keep)

\* the annotation loop with the three lists filled back to front
AnnotatedReversed(df) ==
    [i \in 1..Len(df) |->
        LET d == get_sc_description(df[Len(df) + 1 - i].SC)
        IN  [CU |-> df[i].CU, CHILD |-> df[i].CHILD, SC |-> df[i].SC,
             QTY |-> df[i].QTY, SCDescription |-> d.Description,
             UOI |-> d.UOI, Price |-> d.Price]]

\* the breakdown table with the columns SC Description, UOI and Price filled
\* from desc_list, uoi_list and price_list, one entry per row in row order
Annotated(df) ==
    [i \in 1..Len(df) |->
        LET d == get_sc_description(df[i].SC)
        IN  [CU |-> df[i].CU, CHILD |-> df[i].CHILD, SC |-> df[i].SC,
             QTY |-> df[i].QTY, SCDescription |-> d.Description,
             UOI |-> d.UOI, Price |-> d.Price]]

(***************************************************************************)
(* The Search handler's filter.  str.contains(search_query, case=False)    *)
(* takes the query as a regular expression: of the characters the model    *)
(* draws queries from, "." stands for any character and the others for     *)
(* themselves.                                                             *)
(***************************************************************************)
\* re: the pattern character p matches the text character c, ignoring case
CharMatches(p, c) == p = "." \/ LowerChar(p) = LowerChar(c)

\* re.search(pat, text, re.IGNORECASE) finds a match
Contains(text, pat) ==
    \E k \in 0..(Len(text) - Len(pat)) :
        \A j \in 1..Len(pat) : CharMatches(pat[j], text[k + j])

\* row.astype(str).str.contains(search_query, case=False).any()
RowMatches(r, pat) ==
    Contains(Str(r.Description), pat) \/ Contains(Str(r.Description2), pat)

\* listings[listings.apply(...)]: the matching rows with their index labels
Filter(pat) ==
    LET labelled == [i \in 1..Len(listings) |-> [index |-> i, row |-> listings[i]]]
        Keep(e) == RowMatches(e.row, pat)
    IN  SelectSeq(labelled, Keep)

(***************************************************************************)
(* The script, run top to bottom on every interaction.                     *)
(***************************************************************************)
\* lines 46-76 and 171-172: the first run loads the relations (cached from
\* then on) and starts the session with no search results
LoadData ==
    /\ pc = "boot"
    /\ LET data == load_data(csv)
       IN  /\ listings' = data.listings
           /\ breakdowns' = data.breakdowns
           /\ sc_desc' = data.sc_desc
           /\ backup_desc' = data.backup_desc
    /\ loaded' = TRUE
    /\ search_results' = <<>>
    /\ pc' = "idle"
    /\ UNCHANGED <<csv, last_log, stack, cu_id, legend_df, breakdown_df, view,
                   error, details, track, history>>

\* lines 162-170: the Search button; the rerun clears what Show Details drew
Search(search_query) ==
    /\ pc = "idle"
    /\ last_log' = search_query
    /\ search_results' = Filter(search_query)
    /\ cu_id' = NaN
    /\ legend_df' = <<>>
    /\ breakdown_df' = <<>>
    /\ view' = <<>>
    /\ error' = NoError
    /\ UNCHANGED <<csv, loaded, relations, pc, stack, details, track, history>>

\* what a completed expansion leaves in the record of expansions
Recorded(cu_str, rows) ==
    IF ~track THEN history
    ELSE IF \E h \in history : h.cu = cu_str
    THEN {[h EXCEPT !.again = (h.cu = cu_str) \/ @] : h \in history}
    ELSE history \cup {[cu |-> cu_str, rows |-> rows, again |-> FALSE]}

\* lines 185-206: the Show Details button, up to the call of
\* recursive_breakdown(cu_id) and that call's lines 87-93
ShowDetails(k) ==
    /\ pc = "idle"
    /\ k \in 1..Len(search_results)
    /\ LET row_data == search_results[k].row
           cu == IF IsNa(row_data.Description2)
                 THEN row_data.Description
                 ELSE row_data.Description2
       IN  /\ cu_id' = cu
           /\ legend_df' = get_cu_legend_info(cu)
           /\ IF InBreakdowns(Str(cu))
              THEN /\ stack' = <<NewFrame(Str(cu))>>
                   /\ pc' = "expanding"
                   /\ UNCHANGED history
              ELSE /\ stack' = <<>>
                   /\ pc' = "annotate"
                   /\ history' = Recorded(Str(cu), <<>>)
    /\ breakdown_df' = <<>>
    /\ view' = <<>>
    /\ error' = NoError
    /\ UNCHANGED <<csv, loaded, relations, search_results, last_log, details,
                   track>>

\* lines 100-102, 87-93: a row with a child and no stock code, and room for
\* one more call: recursive_breakdown(child_cu) is entered
Descend ==
    /\ pc = "expanding"
    /\ Top.todo # <<>>
    /\ RowKind(Head(Top.todo)) = "descend"
    /\ Len(stack) < RecursionLimit
    /\ LET child_str == Str(Head(Top.todo).CHILD)
       IN  IF InBreakdowns(child_str)
           THEN stack' = Append(stack, NewFrame(child_str))
           ELSE stack' = Advance(<<>>)
    /\ UNCHANGED <<csv, loaded, relations, search_results, last_log, pc, cu_id,
                   legend_df, breakdown_df, view, error, details, track,
                   history>>

\* line 101 with the interpreter's call stack full: RecursionError unwinds
\* every call and the handler; nothing is returned
Overflow ==
    /\ pc = "expanding"
    /\ Top.todo # <<>>
    /\ RowKind(Head(Top.todo)) = "descend"
    /\ Len(stack) >= RecursionLimit
    /\ stack' = <<>>
    /\ error' = RecursionError
    /\ pc' = "idle"
    /\ UNCHANGED <<csv, loaded, relations, search_results, last_log, cu_id,
                   legend_df, breakdown_df, view, details, track, history>>

\* the row is moved, not copied: it leaves the relation as it joins the result
EmitMoving ==
    /\ pc = "expanding"
    /\ Top.todo # <<>>
    /\ RowKind(Head(Top.todo)) = "emit"
    /\ stack' = Advance(<<Head(Top.todo)>>)
    /\ LET Others(r) == r # Head(Top.todo) IN breakdowns' = SelectSeq(breakdowns, Others)
    /\ UNCHANGED <<csv, loaded, listings, sc_desc, backup_desc, search_results,
                   last_log, pc, cu_id, legend_df, breakdown_df, view, error,
                   details, track, history>>

\* lines 104-105: a row with a stock code joins the result
Emit ==
    /\ pc = "expanding"
    /\ Top.todo # <<>>
    /\ RowKind(Head(Top.todo)) = "emit"
    /\ stack' = Advance(<<Head(Top.todo)>>)
    /\ UNCHANGED <<csv, loaded, relations, search_results, last_log, pc, cu_id,
                   legend_df, breakdown_df, view, error, details, track,
                   history>>

\* lines 95-105: a row with neither a child nor a stock code takes no branch
Skip ==
    /\ pc = "expanding"
    /\ Top.todo # <<>>
    /\ RowKind(Head(Top.todo)) = "skip"
    /\ stack' = Advance(<<>>)
    /\ UNCHANGED <<csv, loaded, relations, search_results, last_log, pc, cu_id,
                   legend_df, breakdown_df, view, error, details, track,
                   history>>

\* line 107 in a nested call, then line 102 in its caller
ReturnDeeper ==
    /\ pc = "expanding"
    /\ Top.todo = <<>>
    /\ Len(stack) > 1
    /\ LET deeper == Top.result
           caller == stack[Len(stack) - 1]
       IN  stack' = [SubSeq(stack, 1, Len(stack) - 1) EXCEPT ![Len(stack) - 1] =
                        [caller EXCEPT !.todo = Tail(@),
                                       !.result = Concat(@, deeper)]]
    /\ UNCHANGED <<csv, loaded, relations, search_results, last_log, pc, cu_id,
                   legend_df, breakdown_df, view, error, details, track,
                   history>>

\* line 107 in the outermost call, then line 206
ReturnToHandler ==
    /\ pc = "expanding"
    /\ Top.todo = <<>>
    /\ Len(stack) = 1
    /\ breakdown_df' = Top.result
    /\ history' = Recorded(Top.cu, Top.result)
    /\ stack' = <<>>
    /\ pc' = "annotate"
    /\ UNCHANGED <<csv, loaded, relations, search_results, last_log, cu_id,
                   legend_df, view, error, details, track>>

\* lines 207-245: the warning for an empty table, or the annotated table
Annotate ==
    /\ pc = "annotate"
    /\ view' = IF breakdown_df = <<>> THEN <<>> ELSE Annotated(breakdown_df)
    /\ pc' = "idle"
    /\ UNCHANGED <<csv, loaded, relations, search_results, last_log, stack,
                   cu_id, legend_df, breakdown_df, error, details, track,
                   history>>

\* lines 109-140: one call of get_sc_description
Resolve(sc_id) ==
    /\ pc = "idle"
    /\ details' = [arg |-> sc_id, result |-> get_sc_description(sc_id)]
    /\ UNCHANGED <<csv, loaded, relations, search_results, last_log, pc, stack,
                   cu_id, legend_df, breakdown_df, view, error, track, history>>

(***************************************************************************)
(* The CSV files the explorations start from.                              *)
(***************************************************************************)
\* every table of at most n rows drawn from pool
Tables(pool, n) == UNION {[1..k -> pool] : k \in 0..n}

\* the state before the script's first run, for each set of files in F
Boot(F, tracking) ==
    /\ csv \in F
    /\ loaded = FALSE
    /\ listings = <<>>
    /\ breakdowns = <<>>
    /\ sc_desc = <<>>
    /\ backup_desc = <<>>
    /\ search_results = <<>>
    /\ last_log = NaN
    /\ pc = "boot"
    /\ stack = <<>>
    /\ cu_id = NaN
    /\ legend_df = <<>>
    /\ breakdown_df = <<>>
    /\ view = <<>>
    /\ error = NoError
    /\ details = [arg |-> NaN, result |-> NoDetails]
    /\ track = tracking
    /\ history = NoHistory

\* CU and CHILD CU cells as the file spells them: "10" and "SC00020"
RawCUs == {<<"1", "0">>, <<"S", "C", "0", "0", "0", "2", "0">>}

\* STOCK CODE and QTY cells as the file spells them: none, "500" x 3, "0501" x 1
RawLeaves ==
    {[SC |-> NaN, QTY |-> NaN],
     [SC |-> <<"5", "0", "0">>, QTY |-> <<"3">>],
     [SC |-> <<"0", "5", "0", "1">>, QTY |-> <<"1">>]}

\* the rows of a breakdowns file: a parent with a child, a leaf, both or
\* neither ("0501" is always a leaf of its own)
BreakdownRows ==
    {r \in {[CU |-> c, CHILD |-> ch, SC |-> l.SC, QTY |-> l.QTY] :
                c \in RawCUs, ch \in RawCUs \cup {NaN}, l \in RawLeaves} :
        r.QTY = <<"1">> => IsNa(r.CHILD)}

\* a listings file: one record per CU
ListingsFile ==
    <<[Unnamed0 |-> <<"0">>, Description |-> <<"a">>, Description2 |-> <<"1", "0">>],
      [Unnamed0 |-> <<"1">>, Description |-> <<"b">>, Description2 |-> <<"2", "0">>]>>

\* a listings file with a third record, whose CU code is in its first named
\* column only
ListingsFileNoCode ==
    Append(ListingsFile,
           [Unnamed0 |-> <<"2">>, Description |-> <<"2", "0">>, Description2 |-> NaN])

\* catalogs in which "500" is in both catalogs and "501" in the backup only
CatalogsA ==
    [sc_desc |-> <<[id |-> <<"0", "5", "0", "0">>, Description |-> "Widget",
                    UOI |-> "EA", Price |-> "2.50"]>>,
     sc_desc_cols |-> {"UOI", "Price"},
     backup_desc |-> <<[id |-> <<"5", "0", "1">>, Description |-> "Bracket"],
                       [id |-> <<"5", "0", "0">>, Description |-> "Old widget"]>>]

\* catalogs in which "501" is in the primary catalog only, which has no
\* UOI and Price columns, and "500" is in neither
CatalogsB ==
    [sc_desc |-> <<[id |-> <<"5", "0", "1">>, Description |-> "Bracket M8",
                    UOI |-> "", Price |-> ""]>>,
     sc_desc_cols |-> {},
     backup_desc |-> <<>>]

Files(lst, rows, cat) ==
    [listings |-> lst,
     breakdowns |-> rows,
     sc_desc |-> cat.sc_desc,
     sc_desc_cols |-> cat.sc_desc_cols,
     backup_desc |-> cat.backup_desc]

\* the expansion engine: every breakdowns file of at most n rows
EngineFiles(n) ==
    {Files(ListingsFile, rows, CatalogsA) : rows \in Tables(BreakdownRows, n)}

Init == Boot(EngineFiles(MaxRows), FALSE)

Next ==
    \/ LoadData
    \/ Search(EmptyText)
    \/ \E k \in 1..Len(ListingsFile) : ShowDetails(k)
    \/ Descend
    \/ Overflow
    \/ Emit
    \/ Skip
    \/ ReturnDeeper
    \/ ReturnToHandler
    \/ Annotate

Spec == Init /\ [][Next]_vars

(***************************************************************************)
(* The parent -> child graph of the loaded breakdown relation.             *)
(***************************************************************************)
\* the edges of the rows that name a child
ChildEdges ==
    {<<breakdowns[i].CU, Str(breakdowns[i].CHILD)>> :
        i \in {j \in 1..Len(breakdowns) : NotNa(breakdowns[j].CHILD)}}

\* the edges of the rows that name a child and no stock code
ChildOnlyEdges ==
    {<<breakdowns[i].CU, Str(breakdowns[i].CHILD)>> :
        i \in {j \in 1..Len(breakdowns) :
                 NotNa(breakdowns[j].CHILD) /\ IsNa(breakdowns[j].SC)}}

RECURSIVE Closure(_)
Closure(E) ==
    LET longer == E \cup {<<p[1][1], p[2][2]>> :
                             p \in {q \in E \X E : q[1][2] = q[2][1]}}
    IN  IF longer = E THEN E ELSE Closure(longer)

\* the pairs joined by a path of one or more edges of E
Paths(E) == Closure(E)

Acyclic == \A e \in Paths(ChildEdges) : e[1] # e[2]

\* the ids on a cycle of child-only edges that the expansion of root reaches
RepeatedIds(root) ==
    LET P == Paths(ChildOnlyEdges)
    IN  {e[1] : e \in {x \in P : x[1] = x[2] /\ (x[1] = root \/ <<root, x[1]>> \in P)}}

\* the Show Details handler has run to its end for cu_id
Finished == pc = "idle" /\ NotNa(cu_id)

\* recursive_breakdown has returned to the handler
Returned == pc = "annotate"

(***************************************************************************)
(* The expansion as the design states it: the depth-first, pre-order       *)
(* concatenation of each edge's contribution, in stored row order.         *)
(***************************************************************************)
RECURSIVE ExpansionOf(_, _), Contributions(_, _, _)
\* what the rows from position i on that belong to cu contribute, in order
Contributions(cu, i, depth) ==
    IF i > Len(breakdowns) THEN <<>>
    ELSE LET row == breakdowns[i]
             own == IF row.CU # cu THEN <<>>
                    ELSE IF NotNa(row.SC) THEN <<row>>
                    ELSE IF NotNa(row.CHILD) /\ depth > 0
                         THEN ExpansionOf(Str(row.CHILD), depth - 1)
                    ELSE <<>>
         IN  own \o Contributions(cu, i + 1, depth)

ExpansionOf(cu, depth) == Contributions(cu, 1, depth)

\* the end-to-end relation: 10 -> 20, 20 -> 500 x 3, 20 -> 501 x 1
EndToEndRelation ==
    <<[CU |-> <<"1", "0">>, CHILD |-> <<"2", "0">>, SC |-> NaN, QTY |-> NaN],
      [CU |-> <<"2", "0">>, CHILD |-> NaN, SC |-> <<"5", "0", "0">>, QTY |-> <<"3">>],
      [CU |-> <<"2", "0">>, CHILD |-> NaN, SC |-> <<"5", "0", "1">>, QTY |-> <<"1">>]>>

(***************************************************************************)
(* C1.  When a cycle of child-only edges is reachable from the root, the   *)
(* expansion ends in a reported CyclicHierarchy error that identifies the  *)
(* repeated id, and never returns a normal result.                         *)
(***************************************************************************)
C1_CycleEndsInCyclicHierarchy ==
    (Finished /\ RepeatedIds(Str(cu_id)) # {}) =>
        /\ error.kind = "CyclicHierarchy"
        /\ error.id \in RepeatedIds(Str(cu_id))
        /\ view = <<>>

(***************************************************************************)
(* The interpreter steps an expansion still has to take: one per row that  *)
(* joins the result or is skipped, one per call entered and one per call   *)
(* returned.  In a frame below the top the row at the head is the one      *)
(* whose call is running; its steps are counted in the frames above.       *)
(***************************************************************************)
RECURSIVE CallSteps(_, _), RowsSteps(_, _)
RowsSteps(rows, depth) ==
    IF rows = <<>> THEN 0
    ELSE LET row == Head(rows)
             own == IF RowKind(row) = "descend" /\ InBreakdowns(Str(row.CHILD))
                       /\ depth > 0
                    THEN 1 + CallSteps(Str(row.CHILD), depth - 1)
                    ELSE 1
         IN  own + RowsSteps(Tail(rows), depth)

CallSteps(cu_str, depth) == RowsSteps(Subset(cu_str), depth) + 1

RECURSIVE StepsLeftFrom(_)
StepsLeftFrom(k) ==
    IF k > Len(stack) THEN 0
    ELSE LET rows == IF k = Len(stack) THEN stack[k].todo ELSE Tail(stack[k].todo)
         IN  RowsSteps(rows, Len(breakdowns)) + 1 + StepsLeftFrom(k + 1)

StepsLeft == StepsLeftFrom(1)

ExpandStep ==
    Descend \/ Overflow \/ Emit \/ Skip \/ ReturnDeeper \/ ReturnToHandler

(***************************************************************************)
(* C2.  On an acyclic breakdown relation every started expansion returns   *)
(* to the handler, and every row it returns has a stock code: no           *)
(* child-only row and no dead-end row is in the result.  Termination is    *)
(* stated by a variant: while the expansion runs the interpreter always    *)
(* has a step to take, and each step lowers the number of steps left and   *)
(* raises no exception, so the return to the handler is reached.           *)
(***************************************************************************)
C2_AcyclicTerminatesWithLeaves ==
    /\ [](pc = "expanding" /\ Acyclic => StepsLeft > 0 /\ ENABLED ExpandStep)
    /\ [](Returned /\ Acyclic =>
            \A i \in 1..Len(breakdown_df) : NotNa(breakdown_df[i].SC))
    /\ [][pc = "expanding" /\ Acyclic =>
            /\ StepsLeft' < StepsLeft
            /\ pc' \in {"expanding", "annotate"}
            /\ error' = NoError]_vars

\* an acyclic relation with a child-only row and a dead-end row under the
\* root, expanded to a non-empty result
C2_Witness ==
    /\ Returned /\ Acyclic /\ breakdown_df # <<>>
    /\ \E i, j \in 1..Len(breakdowns) :
          /\ breakdowns[i].CU = Str(cu_id) /\ RowKind(breakdowns[i]) = "descend"
          /\ breakdowns[j].CU = Str(cu_id) /\ RowKind(breakdowns[j]) = "skip"

(***************************************************************************)
(* C3.  On an acyclic breakdown relation the returned table is the         *)
(* depth-first, pre-order concatenation of the edges' contributions in     *)
(* stored order: a row with a stock code contributes itself, even with a   *)
(* child; a row with only a child contributes its child's expansion in     *)
(* place.  The end-to-end relation expands "10" to 500 x 3, 501 x 1.       *)
(***************************************************************************)
C3_PreOrderConcatenation ==
    (Returned /\ Acyclic) =>
        /\ breakdown_df = ExpansionOf(Str(cu_id), Len(breakdowns))
        /\ (breakdowns = EndToEndRelation /\ cu_id = <<"1", "0">>) =>
              breakdown_df = <<EndToEndRelation[2], EndToEndRelation[3]>>

\* the end-to-end relation has been expanded from "10"
C3_Witness ==
    /\ Returned /\ Acyclic
    /\ breakdowns = EndToEndRelation /\ cu_id = <<"1", "0">>
    /\ Len(breakdown_df) = 2

(***************************************************************************)
(* Whole lookups: smaller breakdown files, two pairs of catalogs, a        *)
(* listings record without a CU code, and the record of expansions kept.   *)
(***************************************************************************)
LookupFiles(n) ==
    {Files(ListingsFileNoCode, rows, cat) :
        rows \in Tables(BreakdownRows, n),
        cat \in {CatalogsA, CatalogsB}}

InitLookup == Boot(LookupFiles(MaxLookupRows), TRUE)

NextLookup ==
    \/ LoadData
    \/ \E q \in {EmptyText, <<"a">>} : Search(q)
    \/ \E k \in 1..Len(ListingsFileNoCode) : ShowDetails(k)
    \/ Descend
    \/ Overflow
    \/ Emit
    \/ Skip
    \/ ReturnDeeper
    \/ ReturnToHandler
    \/ Annotate

SpecLookup == InitLookup /\ [][NextLookup]_vars

(***************************************************************************)
(* The resolution as the design states it: the first primary entry whose   *)
(* id is the leaf id, else the first such backup entry, else the sentinel. *)
(***************************************************************************)
Sentinel == [Description |-> "No Description Found", UOI |-> "", Price |-> ""]

\* the positions of the catalog entries whose id is sc
EntriesFor(catalog, sc) == {i \in 1..Len(catalog) : Str(catalog[i].id) = Str(sc)}

First(S) == CHOOSE i \in S : \A j \in S : i <= j

\* the description, unit and price of a primary entry; a unit or price the
\* catalog has no column for is the empty text
PrimaryDetails(e) ==
    [Description |-> e.Description,
     UOI |-> IF "UOI" \in csv.sc_desc_cols THEN e.UOI ELSE "",
     Price |-> IF "Price" \in csv.sc_desc_cols THEN e.Price ELSE ""]

BackupDetails(e) == [Description |-> e.Description, UOI |-> "", Price |-> ""]

\* the entry of view at position i is row i of breakdown_df joined with d
IsJoin(i, d) ==
    view[i] = [CU |-> breakdown_df[i].CU, CHILD |-> breakdown_df[i].CHILD,
               SC |-> breakdown_df[i].SC, QTY |-> breakdown_df[i].QTY,
               SCDescription |-> d.Description, UOI |-> d.UOI, Price |-> d.Price]

(***************************************************************************)
(* C6.  The breakdown a lookup shows has exactly one entry per row that    *)
(* the expansion returned, in the same order, each carrying the            *)
(* resolution of that row's leaf id; a leaf that only the backup catalog   *)
(* has shows the backup description with unit "" and price "".             *)
(***************************************************************************)
C6_BreakdownIsExpansionJoinedWithResolve ==
    (Finished /\ error = NoError) =>
        /\ Len(view) = Len(breakdown_df)
        /\ \A i \in 1..Len(view) :
              LET sc == breakdown_df[i].SC
                  P == EntriesFor(sc_desc, sc)
                  B == EntriesFor(backup_desc, sc)
              IN  IF P # {} THEN IsJoin(i, PrimaryDetails(sc_desc[First(P)]))
                  ELSE IF B # {} THEN IsJoin(i, BackupDetails(backup_desc[First(B)]))
                  ELSE IsJoin(i, Sentinel)

\* a lookup of two leaves, the second of which, "501", is missing from the
\* primary catalog and is shown with the backup's "Bracket"
C6_Witness ==
    /\ Finished /\ error = NoError /\ Len(view) = 2
    /\ view[1].SC # view[2].SC
    /\ view[2].SC = <<"5", "0", "1">>
    /\ EntriesFor(sc_desc, view[2].SC) = {}
    /\ view[2].SCDescription = "Bracket" /\ view[2].UOI = "" /\ view[2].Price = ""

(***************************************************************************)
(* C10.  After load no search, legend, expansion, resolution or lookup,    *)
(* whether it returns rows, nothing, or fails, changes the four relations; *)
(* an expansion of a CU that was expanded before, at any earlier point,    *)
(* returns the identical table, in the identical order.                    *)
(***************************************************************************)
C10_RelationsUnchangedAndExpansionRepeats ==
    /\ [][loaded => relations' = relations]_vars
    /\ [][(Returned' /\ ~Returned) =>
             \A h \in history : h.cu = Str(cu_id') => breakdown_df' = h.rows]_vars

\* a CU was expanded to two rows, another CU was expanded, and the first was
\* expanded again
C10_Witness ==
    /\ Returned /\ Cardinality(history) = 2
    /\ \E h \in history :
          h.cu = Str(cu_id) /\ h.again /\ Len(h.rows) = 2 /\ breakdown_df = h.rows

(***************************************************************************)
(* The resolver on its own: every pair of catalogs of at most MaxCatalog   *)
(* entries.  The primary file spells "501" with a leading zero; a          *)
(* catalog's description may be any text, the text "No Description Found"  *)
(* included; the primary file has its UOI and Price columns or lacks them. *)
(***************************************************************************)
PrimaryRows(cols) ==
    {[id |-> i, Description |-> d,
      UOI |-> IF "UOI" \in cols THEN "EA" ELSE "",
      Price |-> IF "Price" \in cols THEN "2.50" ELSE ""] :
        i \in {<<"5", "0", "0">>, <<"0", "5", "0", "1">>},
        d \in {"Widget", "No Description Found"}}

BackupRows ==
    {[id |-> i, Description |-> d] :
        i \in {<<"5", "0", "0">>, <<"5", "0", "1">>},
        d \in {"Bracket", "No Description Found"}}

ResolveFiles(n) ==
    UNION {{[listings |-> <<>>, breakdowns |-> <<>>, sc_desc |-> p,
             sc_desc_cols |-> cols, backup_desc |-> b] :
                p \in Tables(PrimaryRows(cols), n),
                b \in Tables(BackupRows, n)} :
           cols \in {{}, {"UOI", "Price"}}}

\* the ids asked for: "500", "501", and "9", which no catalog has
ResolveIds == {<<"5", "0", "0">>, <<"5", "0", "1">>, <<"9">>}

InitResolve == Boot(ResolveFiles(MaxCatalog), FALSE)

NextResolve ==
    \/ LoadData
    \/ \E sc_id \in ResolveIds : Resolve(sc_id)

SpecResolve == InitResolve /\ [][NextResolve]_vars

\* get_sc_description has been called
Resolved == NotNa(details.arg)

(***************************************************************************)
(* C4.  An id the primary catalog has resolves to the description, unit    *)
(* and price of its primary entry, whether or not the backup catalog has   *)
(* it too; the backup entry is never returned then.                        *)
(***************************************************************************)
C4_PrimaryTakesPrecedence ==
    (Resolved /\ EntriesFor(sc_desc, details.arg) # {}) =>
        details.result =
            PrimaryDetails(sc_desc[First(EntriesFor(sc_desc, details.arg))])

\* an id both catalogs have, with different descriptions, was resolved
C4_Witness ==
    /\ Resolved
    /\ EntriesFor(sc_desc, details.arg) # {}
    /\ EntriesFor(backup_desc, details.arg) # {}
    /\ \A i \in EntriesFor(backup_desc, details.arg) :
          backup_desc[i].Description # details.result.Description

(***************************************************************************)
(* C5.  resolve returns the sentinel record if and only if the id is in    *)
(* neither catalog.                                                        *)
(***************************************************************************)
C5_SentinelIffAbsentFromBoth ==
    Resolved =>
        (details.result = Sentinel <=>
            /\ EntriesFor(sc_desc, details.arg) = {}
            /\ EntriesFor(backup_desc, details.arg) = {})

(***************************************************************************)
(* C5, amended.  An id in neither catalog resolves to the sentinel record; *)
(* a sentinel result means the id is in neither catalog, or the entry that *)
(* is resolved (the first primary entry, else the first backup entry)      *)
(* itself reads as the sentinel record.                                    *)
(***************************************************************************)
C5_SentinelIffAbsentOrEntryReadsSentinel ==
    Resolved =>
        LET P == EntriesFor(sc_desc, details.arg)
            B == EntriesFor(backup_desc, details.arg)
        IN  details.result = Sentinel <=>
                \/ P = {} /\ B = {}
                \/ P # {} /\ PrimaryDetails(sc_desc[First(P)]) = Sentinel
                \/ P = {} /\ B # {}
                   /\ backup_desc[First(B)].Description = Sentinel.Description

\* an id that no catalog has was resolved to the sentinel
C5_Witness ==
    /\ Resolved /\ details.result = Sentinel
    /\ EntriesFor(sc_desc, details.arg) = {}
    /\ EntriesFor(backup_desc, details.arg) = {}
    /\ sc_desc # <<>> /\ backup_desc # <<>>

(***************************************************************************)
(* The Search handler on its own: every listings file of at most           *)
(* MaxListings records and every query of at most MaxQueryLen characters.  *)
(***************************************************************************)
\* the cells of a listings record: "a", "Ab", ".", or missing
AttrTexts == {<<"a">>, <<"A", "b">>, <<".">>, NaN}

ListingRows ==
    {[Unnamed0 |-> <<"0">>, Description |-> d, Description2 |-> c] :
        d \in AttrTexts, c \in AttrTexts}

SearchFiles(n) ==
    {[listings |-> l, breakdowns |-> <<>>, sc_desc |-> <<>>,
      sc_desc_cols |-> {}, backup_desc |-> <<>>] :
        l \in Tables(ListingRows, n)}

QueryChars == {"a", "B", "."}

Queries == UNION {[1..n -> QueryChars] : n \in 0..MaxQueryLen}

InitSearch == Boot(SearchFiles(MaxListings), FALSE)

NextSearch ==
    \/ LoadData
    \/ \E q \in Queries : Search(q)

SpecSearch == InitSearch /\ [][NextSearch]_vars

\* the Search handler has run
Searched == NotNa(last_log)

\* text contains q as a substring, ignoring case
HasSubstring(text, q) ==
    \E k \in 0..(Len(text) - Len(q)) :
        \A j \in 1..Len(q) : LowerChar(text[k + j]) = LowerChar(q[j])

\* the positions of the records with an attribute whose string form
\* contains q
Hits(q) ==
    {i \in 1..Len(listings) :
        \/ HasSubstring(Str(listings[i].Description), q)
        \/ HasSubstring(Str(listings[i].Description2), q)}

(***************************************************************************)
(* C7.  search(query) returns, in stored order, exactly the listings       *)
(* records with an attribute whose string form contains the query as a     *)
(* substring, ignoring case; so the empty query returns every record.      *)
(***************************************************************************)
C7_SearchIsSubstringMatch ==
    Searched =>
        /\ {search_results[k].index : k \in 1..Len(search_results)} = Hits(last_log)
        /\ \A k \in 1..Len(search_results) :
              /\ search_results[k].row = listings[search_results[k].index]
              /\ \A m \in 1..(k - 1) : search_results[m].index < search_results[k].index
        /\ last_log = EmptyText => Len(search_results) = Len(listings)

(***************************************************************************)
(* Load on its own: files whose identifiers are spelled with at most       *)
(* MaxTokens of the tokens "0", "1", "SC000" and "sc000", or are missing.  *)
(* Cleaning is cell by cell: the first breakdowns row and the primary      *)
(* catalog carry any such identifier, the second row a single token.       *)
(***************************************************************************)
Tokens ==
    {<<"0">>, <<"1">>, <<"S", "C", "0", "0", "0">>, <<"s", "c", "0", "0", "0">>}

RECURSIVE Spellings(_)
Spellings(n) ==
    IF n = 0 THEN {EmptyText}
    ELSE Spellings(n - 1) \cup {s \o t : s \in Spellings(n - 1), t \in Tokens}

\* a CSV cell is a non-empty text or missing
RawIds == (Spellings(MaxTokens) \ {EmptyText}) \cup {NaN}

LoadFiles ==
    {[listings |-> <<[Unnamed0 |-> <<"0">>, Description |-> x, Description2 |-> y]>>,
      breakdowns |-> <<[CU |-> x, CHILD |-> y, SC |-> x, QTY |-> <<"1">>],
                       [CU |-> y, CHILD |-> x, SC |-> y, QTY |-> <<"1">>]>>,
      sc_desc |-> <<[id |-> x, Description |-> "Widget", UOI |-> "EA",
                     Price |-> "2.50"]>>,
      sc_desc_cols |-> {"UOI", "Price"},
      backup_desc |-> <<[id |-> y, Description |-> "Bracket"]>>] :
        x \in RawIds, y \in Tokens \cup {NaN}}

InitLoad == Boot(LoadFiles, FALSE)

NextLoad ==
    \/ LoadData
    \/ Search(EmptyText)

SpecLoad == InitLoad /\ [][NextLoad]_vars

BeginsWith(x, p) == NotNa(x) /\ StartsWith(x, p)

\* x begins with "SC000" in some letter case
BeginsWithPrefix(x) == NotNa(x) /\ StartsWith(Lower(x), SC000)

\* x begins with two "SC000" prefixes, one after the other
BeginsWithTwoPrefixes(x) ==
    BeginsWithPrefix(x) /\ BeginsWithPrefix(SubSeq(x, 6, Len(x)))

\* the identifiers of the files
RawCells ==
    UNION {{csv.breakdowns[i].CU, csv.breakdowns[i].CHILD, csv.breakdowns[i].SC} :
              i \in 1..Len(csv.breakdowns)}
    \cup {csv.sc_desc[i].id : i \in 1..Len(csv.sc_desc)}

\* normalization as one function: strip the leading zeros, then the prefix
Normalize(x) == remove_sc000_prefix(StripCell(x))

(***************************************************************************)
(* C8.  Identifier normalization (strip leading "0"s, then strip a         *)
(* case-insensitive "SC000" prefix) is idempotent: normalizing a           *)
(* normalized identifier changes nothing.                                  *)
(***************************************************************************)
C8_NormalizeIsIdempotent ==
    loaded => \A x \in RawCells : Normalize(Normalize(x)) = Normalize(x)

(***************************************************************************)
(* C8, amended.  Each stripping that load applies is idempotent where it   *)
(* can be: stripping the leading zeros twice is stripping them once, for   *)
(* every identifier; removing the prefix twice is removing it once, for    *)
(* every identifier that does not begin with two prefixes in a row (only   *)
(* one prefix is removed).                                                 *)
(***************************************************************************)
C8_EachStrippingIsIdempotent ==
    loaded =>
        \A x \in RawCells :
            /\ StripCell(StripCell(x)) = StripCell(x)
            /\ ~BeginsWithTwoPrefixes(x) =>
                  remove_sc000_prefix(remove_sc000_prefix(x)) = remove_sc000_prefix(x)
            /\ BeginsWithTwoPrefixes(x) =>
                  remove_sc000_prefix(remove_sc000_prefix(x)) # remove_sc000_prefix(x)

\* the files held an identifier with leading zeros and one with a prefix
C8_Witness ==
    /\ loaded
    /\ \E x \in RawCells : BeginsWith(x, <<"0", "0">>) /\ Len(StripCell(x)) > 0
    /\ \E x \in RawCells : BeginsWithPrefix(x) /\ ~BeginsWithTwoPrefixes(x)

====
